---- MODULE Spec2Model ----
(***************************************************************************)
(* A model of nbox's Operator graph (nbox/jobs/operator.py) and of its     *)
(* Airflow bridge (nbox/framework/__airflow.py).                           *)
(*                                                                         *)
(* The heap maps an object id to the fields of an Operator instance:       *)
(*   inited     "_operators" is a key of the instance __dict__             *)
(*   dict       the other entries of the instance __dict__                 *)
(*   operators  the OrderedDict _operators, as a sequence of <<name, id>>  *)
(*   cls        the name of the instance's class                           *)
(*   fwd        the callable the attribute forward resolves to             *)
(*   doc, comms the class docstring, and what comms() returns (an empty    *)
(*              mapping when the class has no comms or it raises)          *)
(* Python values are tagged records, so that an Operator, None, a mapping  *)
(* and any other object are told apart the way isinstance / truthiness do. *)
(*                                                                         *)
(* The other variables observe the operations:                             *)
(*   steps        the number of assignments and constructions made         *)
(*   lastSet      the last attribute assignment and what it raised         *)
(*   lastCall     a call made on the current graph and its outcome         *)
(*   exported     the task to_airflow_operator built, and for which node   *)
(*   root, gen    the root from_airflow_dag returned, and the state of the *)
(*                generator root.operators() its forward closes over: not  *)
(*                started, suspended with its frames and memo, or finished *)
(*   lastImport   the import made, its tasks and its outcome               *)
(*   invocations  the invocations of the imported root, each with the      *)
(*                operator calls it made                                   *)
(*                                                                         *)
(* Three specifications share the definitions: Spec builds graphs by       *)
(* attribute assignment, SpecCall also calls their nodes, SpecImport       *)
(* exports, imports, assigns to the imported tree and invokes its root.    *)
(*                                                                         *)
(* Objects handed to others are constructed ones: an operator whose        *)
(* Operator.__init__ has not run yet (node 4 at first) can be an owner of  *)
(* assignments, but is assigned as a child, traversed or called only once  *)
(* it is initialised. Attribute names are user names, never "_operators";  *)
(* the name "forward" is assigned plain functions only.                    *)
(***************************************************************************)
EXTENDS Integers, Sequences, FiniteSets, TLC

VARIABLES heap, steps, lastSet, lastCall, exported, root, gen, lastImport, invocations

vars == <<heap, steps, lastSet, lastCall, exported, root, gen, lastImport, invocations>>

(***************************************************************************)
(* Bounds and input domains                                                *)
(***************************************************************************)
MaxSteps == 3

MaxCallSteps == 2

MaxInvocations == 3

MaxLate == 1

Nodes == {1, 2, 3, 4}

Names == {"x", "y", "root"}

MaxArgs == 3

KwNames == {"a", "c"}

(***************************************************************************)
(* Python values                                                           *)
(***************************************************************************)
EmptyMap == [k \in {} |-> 0]

OpVal(n) == [t |-> "op", id |-> n, m |-> EmptyMap]

NonOpVal == [t |-> "other", id |-> 0, m |-> EmptyMap]

PyNone == [t |-> "none", id |-> 0, m |-> EmptyMap]

PyMap(m) == [t |-> "map", id |-> 0, m |-> m]

PyObj(n, m) == [t |-> "obj", id |-> n, m |-> m]

(* a function object held by an attribute *)
PyFn == [t |-> "fn", id |-> 0, m |-> EmptyMap]

IsOperator(value) == value.t = "op"

Falsy(value) == value.t = "none" \/ (value.t = "map" /\ DOMAIN value.m = {})

(* a callable: its declared parameter names (without self), what its body     *)
(* returns, and whether it is a function of the class, which the attribute    *)
(* forward gives as a bound method, or a callable held by the instance        *)
Callable(params, ret, method) == [params |-> params, ret |-> ret, method |-> method]

(* def forward(self, ...) of the operator classes of Spec and SpecCall *)
UserForward(n) ==
  Callable(CASE n = 1 -> <<"a", "b", "c">> [] n = 2 -> <<"a">> [] OTHER -> <<>>, "obj", TRUE)

(* a plain function assigned to the attribute forward of an instance *)
PlainForward == Callable(<<"a">>, "echo", FALSE)

NewOperator(cls, fwd) ==
  [inited |-> TRUE, dict |-> EmptyMap, operators |-> <<>>, cls |-> cls, fwd |-> fwd,
   doc |-> "", comms |-> EmptyMap]

(***************************************************************************)
(* Operator.__setattr__                                                    *)
(***************************************************************************)
HasName(items, key) == \E i \in 1..Len(items) : items[i][1] = key

(* OrderedDict item assignment: an existing key keeps its position *)
OrderedPut(items, key, id) ==
  IF HasName(items, key)
  THEN [i \in 1..Len(items) |-> IF items[i][1] = key THEN <<key, id>> ELSE items[i]]
  ELSE Append(items, <<key, id>>)

SetAttrStatus(obj, key, value) ==
  IF IsOperator(value)
  THEN IF ~obj.inited THEN "AttributeError"
       ELSE IF key \in DOMAIN obj.dict /\ ~HasName(obj.operators, key) THEN "KeyError"
       ELSE "ok"
  ELSE "ok"

SetAttrResult(obj, key, value) ==
  IF SetAttrStatus(obj, key, value) # "ok" THEN obj
  ELSE [obj EXCEPT
          !.operators = IF IsOperator(value) THEN OrderedPut(@, key, value.id) ELSE @,
          !.dict = (key :> value) @@ @]

(* self.forward = fn, fn no Operator: the instance attribute shadows the     *)
(* forward of the class                                                      *)
assign_forward(obj, fn) == [SetAttrResult(obj, "forward", PyFn) EXCEPT !.fwd = fn]

(***************************************************************************)
(* Operator.named_operators / operators / is_dag                           *)
(***************************************************************************)
(* the dot put in front of a child of the root too *)
submodule_prefix_always_dot(prefix, name) == prefix \o "." \o name

submodule_prefix(prefix, name) == prefix \o (IF prefix # "" THEN "." ELSE "") \o name

RECURSIVE named_operators(_, _, _, _, _)
RECURSIVE named_children(_, _, _, _, _, _)
(* the pairs the generator yields, with the memo as left after the walk *)
named_operators(h, self, memo, prefix, remove_duplicate) ==
  IF self \in memo THEN [out |-> <<>>, memo |-> memo]
  ELSE LET m1 == IF remove_duplicate THEN memo \cup {self} ELSE memo
           kids == named_children(h, h[self].operators, 1, m1, prefix, remove_duplicate)
       IN [out |-> <<<<prefix, self>>>> \o kids.out, memo |-> kids.memo]

named_children(h, items, i, memo, prefix, remove_duplicate) ==
  IF i > Len(items) THEN [out |-> <<>>, memo |-> memo]
  ELSE LET sub == named_operators(h, items[i][2], memo,
                                  submodule_prefix(prefix, items[i][1]), remove_duplicate)
           rest == named_children(h, items, i + 1, sub.memo, prefix, remove_duplicate)
       IN [out |-> sub.out \o rest.out, memo |-> rest.memo]

NamedOperators(h, self) == named_operators(h, self, {}, "", TRUE).out

operators(h, self) ==
  LET pairs == NamedOperators(h, self) IN [i \in 1..Len(pairs) |-> pairs[i][2]]

RECURSIVE is_dag_loop(_, _, _)
is_dag_loop(pairs, i, graph) ==
  IF i > Len(pairs) THEN TRUE
  ELSE LET name == IF pairs[i][1] = "" THEN "root" ELSE pairs[i][1]
       IN IF name \in graph THEN FALSE ELSE is_dag_loop(pairs, i + 1, graph \cup {name})

is_dag(h, self) == is_dag_loop(NamedOperators(h, self), 1, {})

(***************************************************************************)
(* Operator.inputs / Operator.__call__                                     *)
(***************************************************************************)
(* inspect.getfullargspec(self.forward).args: a bound method lists self      *)
(* first; a callable held by the instance lists its own parameters only      *)
forward_args(h, self) ==
  IF h[self].fwd.method THEN <<"self">> \o h[self].fwd.params ELSE h[self].fwd.params

RECURSIVE drop_first(_, _)
drop_first(list, x) ==
  IF list = <<>> THEN <<>>
  ELSE IF Head(list) = x THEN Tail(list) ELSE <<Head(list)>> \o drop_first(Tail(list), x)

(* list.remove(x): drops the first occurrence, ValueError when there is none *)
list_remove(list, x) ==
  IF \E i \in 1..Len(list) : list[i] = x
  THEN [status |-> "ok", list |-> drop_first(list, x)]
  ELSE [status |-> "ValueError", list |-> list]

inputs(h, self) == list_remove(forward_args(h, self), "self")

Outcome(status, stage, forward, input, value) ==
  [status |-> status, stage |-> stage, forward |-> forward, input |-> input, value |-> value]

(* what the body of a callable returns for the mapping it was called with *)
Return(f, self, input_dict) ==
  CASE f.ret = "obj" -> PyObj(self, input_dict)
    [] f.ret = "none" -> PyNone
    [] f.ret = "empty" -> PyMap(EmptyMap)
    [] f.ret = "echo" -> PyMap(input_dict)
    [] OTHER -> PyMap([k \in {"a"} |-> 1])

(* for i, arg in enumerate(args): input_dict[self.inputs[i]] = arg *)
bind_positional(ins, args) ==
  [k \in {ins[i] : i \in 1..Len(args)} |-> args[CHOOSE i \in 1..Len(args) : ins[i] = k]]

(* self.forward with input_dict unpacked, as __call__ reaches it *)
forward(h, self, input_dict) ==
  LET f == h[self].fwd IN
  IF DOMAIN input_dict # {f.params[i] : i \in 1..Len(f.params)}
  THEN Outcome("TypeError", "forward", "rejected", input_dict, PyNone)
  ELSE IF f.ret = "unimplemented"
  THEN Outcome("NotImplementedError", "forward", "called", input_dict, PyNone)
  ELSE Outcome("ok", "forward", "called", input_dict, Return(f, self, input_dict))

(* Operator.__call__(self, *args, **kwargs) with _type_check_ popped from kwargs *)
call(h, self, args, kwargs, type_check) ==
  IF ~is_dag(h, self)
  THEN Outcome("AssertionError", "is_dag", "not_called", EmptyMap, PyNone)
  ELSE LET ins == inputs(h, self)
           len_inputs == Len(args) + Cardinality(DOMAIN kwargs)
       IN IF ins.status # "ok"
          THEN Outcome("ValueError", "inputs", "not_called", EmptyMap, PyNone)
          ELSE IF type_check /\ len_inputs # Len(ins.list)
          THEN Outcome("ValueError", "type_check", "not_called", EmptyMap, PyNone)
          ELSE IF Len(args) > Len(ins.list)
          THEN Outcome("IndexError", "bind_args", "not_called", EmptyMap, PyNone)
          ELSE IF DOMAIN kwargs # {}
          THEN Outcome("TypeError", "bind_kwargs", "not_called", EmptyMap, PyNone)
          ELSE forward(h, self, bind_positional(ins.list, args))

(***************************************************************************)
(* The generator root.operators(), and sequential_forward which iterates   *)
(* it                                                                      *)
(***************************************************************************)
(* the generator object: created and not started, running (suspended at a  *)
(* yield, with one frame of named_operators per level and the memo they    *)
(* share), or done                                                         *)
NoGen == [state |-> "none", root |-> 0, stack |-> <<>>, memo |-> {}]

NewGen(self) == [state |-> "created", root |-> self, stack |-> <<>>, memo |-> {}]

DoneGen(g) == [g EXCEPT !.state = "done", !.stack = <<>>]

(* a frame of named_operators suspended at yield prefix, self: the iterator *)
(* of self._operators.items() is not made yet                               *)
Frame(node) == [node |-> node, iter |-> FALSE, size |-> 0, idx |-> 0]

Yielded(g, kind, item) == [gen |-> g, kind |-> kind, item |-> item]

RECURSIVE gen_resume(_, _)
(* resumes the innermost frame. The iterator of an OrderedDict remembers the *)
(* size at its creation and the key it gives next: it stops without a check  *)
(* when there is no next key, raises RuntimeError when the size has changed, *)
(* and reads the value of the key at that moment                             *)
gen_resume(h, g) ==
  IF g.stack = <<>> THEN Yielded(DoneGen(g), "stop", 0)
  ELSE LET d == Len(g.stack)
           top == g.stack[d]
           items == h[top.node].operators
       IN IF ~top.iter
          THEN gen_resume(h, [g EXCEPT !.stack[d] =
                                [top EXCEPT !.iter = TRUE, !.size = Len(items), !.idx = 1]])
          ELSE IF top.idx > top.size
          THEN gen_resume(h, [g EXCEPT !.stack = SubSeq(@, 1, d - 1)])
          ELSE IF Len(items) # top.size
          THEN Yielded(DoneGen(g), "RuntimeError", 0)
          ELSE LET module == items[top.idx][2]
                   g1 == [g EXCEPT !.stack[d].idx = top.idx + 1]
               IN IF module \in g.memo THEN gen_resume(h, g1)
                  ELSE Yielded([g1 EXCEPT !.stack = Append(@, Frame(module)),
                                          !.memo = @ \cup {module}],
                               "item", module)

(* next(ops) *)
gen_next(h, g) ==
  CASE g.state = "created" ->
         Yielded([g EXCEPT !.state = "running", !.stack = <<Frame(g.root)>>,
                           !.memo = {g.root}],
                 "item", g.root)
    [] g.state = "running" -> gen_resume(h, g)
    [] OTHER -> Yielded(g, "stop", 0)

Run(status, stage, value, g, log) ==
  [status |-> status, stage |-> stage, value |-> value, gen |-> g, log |-> log]

RECURSIVE repr_recurses(_, _, _)
(* Operator.__repr__ calls repr on every child: on an operator that is being *)
(* formatted already the recursion has no end                                *)
repr_recurses(h, self, active) ==
  \/ self \in active
  \/ \E i \in 1..Len(h[self].operators) :
       repr_recurses(h, h[self].operators[i][2], active \cup {self})

(* str(o): the text of __repr__, or RecursionError *)
repr_status(h, self) == IF repr_recurses(h, self, {}) THEN "RecursionError" ELSE "ok"

(* o called with out unpacked, out no mapping: the TypeError is worded with *)
(* str(o)                                                                   *)
unpack_status(h, o) ==
  IF repr_status(h, o) # "ok" THEN repr_status(h, o) ELSE "TypeError"

RECURSIVE sequential_forward(_, _, _, _)
\* for o in ops: out = o.__call__ with out unpacked; if not out: out = {}; return out.
\* The log lists the calls made, each with the mapping it was given.
sequential_forward(h, g, out, log) ==
  LET n == gen_next(h, g) IN
  IF n.kind = "stop" THEN Run("ok", "return", out, n.gen, log)
  ELSE IF n.kind = "RuntimeError" THEN Run("RuntimeError", "iterate", PyNone, n.gen, log)
  ELSE IF out.t # "map" THEN Run(unpack_status(h, n.item), "unpack", PyNone, n.gen, log)
  ELSE LET r == call(h, n.item, <<>>, out.m, TRUE)
           log2 == Append(log, <<n.item, out.m>>)
       IN IF r.status # "ok" THEN Run(r.status, r.stage, PyNone, n.gen, log2)
          ELSE sequential_forward(h, n.gen,
                                  IF Falsy(r.value) THEN PyMap(EmptyMap) ELSE r.value, log2)

(***************************************************************************)
(* The Airflow bridge: to_airflow_operator, from_airflow_operator,         *)
(* from_airflow_dag                                                        *)
(***************************************************************************)
(* a scheduler task: its class name, task_id, python_callable (when the    *)
(* class has that attribute), direct upstream task_ids, and the timeouts   *)
Task(cls, task_id, has_callable, callable, upstream, timeout) ==
  [cls |-> cls, task_id |-> task_id, has_callable |-> has_callable, callable |-> callable,
   upstream |-> upstream, execution_timeout |-> timeout, sla |-> timeout, doc_rst |-> ""]

NoTask == Task("", "", FALSE, Callable(<<>>, "none", FALSE), <<>>, 0)

(* the keywords to_airflow_operator passes to BaseOperator itself *)
FixedKeywords ==
  {"email", "email_on_retry", "email_on_failure", "doc", "doc_md", "doc_json", "doc_yaml",
   "on_execute_callback", "on_failure_callback", "on_success_callback", "on_retry_callback"}

(* inspect.getdoc(operator.__init__) of a class whose __init__ has no docstring *)
InitDoc == "Initialize self.  See help(type(self)) for accurate signature."

(* dict.update: the entries of other replace those of d *)
dict_update(d, other) == other @@ d

Exported(status, task) == [status |-> status, task |-> task]

(* operator_kwargs_dict is filled with the timeout, the class name and the      *)
(* documentation, updated with comms() and then with operator_kwargs, and       *)
(* unpacked into BaseOperator next to the fixed keywords: a key that is a fixed *)
(* keyword too is a TypeError. BaseOperator has no python_callable              *)
to_airflow_operator(operator, timeout, operator_kwargs) ==
  LET base == ("execution_timeout" :> timeout) @@ ("sla" :> timeout)
                @@ ("task_id" :> operator.cls)
                @@ ("doc_rst" :> (operator.doc \o "\n" \o InitDoc))
      operator_kwargs_dict == dict_update(dict_update(base, operator.comms), operator_kwargs)
      task == Task("BaseOperator", operator_kwargs_dict["task_id"], FALSE,
                   Callable(<<>>, "none", FALSE), <<>>, 0)
  IN IF DOMAIN operator_kwargs_dict \cap FixedKeywords # {}
     THEN Exported("TypeError", NoTask)
     ELSE Exported("ok",
            [task EXCEPT !.execution_timeout = operator_kwargs_dict["execution_timeout"],
                         !.sla = operator_kwargs_dict["sla"],
                         !.doc_rst = operator_kwargs_dict["doc_rst"]])

(* operator_cls(): a fresh operator whose forward is Operator.forward *)
operator_cls == NewOperator("Operator", Callable(<<>>, "unimplemented", TRUE))

(* fn becomes the operator's forward: it is stored on the instance *)
register_forward(obj, fn) == assign_forward(obj, fn)

ImportOutcome(status, h, result, g) == [status |-> status, h |-> h, result |-> result, gen |-> g]

from_airflow_operator(h, air_operator) ==
  IF ~(air_operator.cls # "PythonOperator")
  THEN ImportOutcome("AssertionError: Only PythonOperator is supported", h, 0, NoGen)
  ELSE IF ~air_operator.has_callable
  THEN ImportOutcome("AttributeError", h, 0, NoGen)
  ELSE ImportOutcome("ok", Append(h, register_forward(operator_cls, air_operator.callable)),
                     Len(h) + 1, NoGen)

edge_name(p, child) == "op__" \o p \o "__" \o child

task_dict(task_group) ==
  [id \in {task_group[i].task_id : i \in 1..Len(task_group)} |->
     task_group[CHOOSE i \in 1..Len(task_group) : task_group[i].task_id = id]]

(* a fresh operator made for every mention of a task *)
ensure_op_always_fresh(st, id, fresh) ==
  [st EXCEPT !.h = Append(@, fresh), !.all_ops = (id :> (Len(st.h) + 1)) @@ @]

(* all_ops[p] = operator_cls() when p is not in all_ops *)
ensure_op(st, id, fresh) ==
  IF id \in DOMAIN st.all_ops THEN st
  ELSE [st EXCEPT !.h = Append(@, fresh), !.all_ops = (id :> (Len(st.h) + 1)) @@ @]

RECURSIVE attach_parents(_, _, _, _, _)
(* for p in parents: ... setattr(all_ops[p], f"op__{p}__{child}", all_ops[child]) *)
attach_parents(st, td, child, parents, i) ==
  IF i > Len(parents) \/ st.status # "ok" THEN st
  ELSE LET p == parents[i]
           s1 == ensure_op(st, p, operator_cls)
           owner == s1.all_ops[p]
           value == OpVal(s1.all_ops[child])
           status == SetAttrStatus(s1.h[owner], edge_name(p, child), value)
           h2 == [s1.h EXCEPT ![owner] = SetAttrResult(@, edge_name(p, child), value)]
           h3 == IF p \in DOMAIN td /\ td[p].has_callable
                 THEN [h2 EXCEPT ![owner] = register_forward(@, td[p].callable)]
                 ELSE h2
       IN IF status # "ok" THEN [s1 EXCEPT !.status = status]
          ELSE attach_parents([s1 EXCEPT !.h = h3], td, child, parents, i + 1)

RECURSIVE build_ops(_, _, _, _)
(* for child, parents in topo_tree.items(): ... *)
build_ops(st, td, task_group, i) ==
  IF i > Len(task_group) \/ st.status # "ok" THEN st
  ELSE LET child == task_group[i].task_id
           parents == task_group[i].upstream
           s1 == ensure_op(st, child, register_forward(operator_cls, td[child].callable))
           s2 == attach_parents(s1, td, child, parents, 1)
           s3 == IF parents = <<>> THEN [s2 EXCEPT !.parent_less_ops = Append(@, child)]
                 ELSE s2
       IN build_ops(s3, td, task_group, i + 1)

RECURSIVE attach_root(_, _, _)
(* for p in parent_less_ops: setattr(root, f"op__root__{p}", all_ops[p]) *)
attach_root(st, root_id, i) ==
  IF i > Len(st.parent_less_ops) \/ st.status # "ok" THEN st
  ELSE LET p == st.parent_less_ops[i]
           value == OpVal(st.all_ops[p])
           status == SetAttrStatus(st.h[root_id], edge_name("root", p), value)
       IN attach_root([st EXCEPT !.status = status,
                                 !.h[root_id] = SetAttrResult(@, edge_name("root", p), value)],
                      root_id, i + 1)

(* the forward registered on the root is sequential_forward with ops the    *)
(* generator root.operators(), created here and not started                *)
from_airflow_dag(h, task_group) ==
  IF \E i \in 1..Len(task_group) : task_group[i].cls # "PythonOperator"
  THEN ImportOutcome("Exception: Only PythonOperator is supported", h, 0, NoGen)
  ELSE LET root_id == Len(h) + 1
           st0 == [h |-> Append(h, operator_cls), all_ops |-> EmptyMap,
                   parent_less_ops |-> <<>>, status |-> "ok"]
           st1 == build_ops(st0, task_dict(task_group), task_group, 1)
           st2 == attach_root(st1, root_id, 1)
           ops == NewGen(root_id)
       IN IF st2.status # "ok" THEN ImportOutcome(st2.status, h, 0, NoGen)
          ELSE ImportOutcome("ok",
                 [st2.h EXCEPT ![root_id] =
                    register_forward(@, Callable(<<>>, "sequential", FALSE))],
                 root_id, ops)

(***************************************************************************)
(* State                                                                   *)
(***************************************************************************)
NoSet == [owner |-> 0, key |-> "", value |-> PyNone, status |-> "none"]

NoCall ==
  [node |-> 0, args |-> <<>>, kwargs |-> EmptyMap, type_check |-> TRUE,
   status |-> "none", stage |-> "none", forward |-> "not_called", input |-> EmptyMap,
   value |-> PyNone]

NoExport == [of |-> 0, status |-> "none", task |-> NoTask]

NoImport == [via |-> "none", tasks |-> <<>>, status |-> "none", result |-> 0]

Init ==
  /\ heap = [n \in Nodes |->
               [NewOperator("Op", UserForward(n)) EXCEPT !.inited = (n # 4)]]
  /\ steps = 0
  /\ lastSet = NoSet
  /\ lastCall = NoCall
  /\ exported = NoExport
  /\ root = 0
  /\ gen = NoGen
  /\ lastImport = NoImport
  /\ invocations = <<>>

Ready(h) == {n \in DOMAIN h : h[n].inited}

(* Operator.__init__: self._operators = OrderedDict() *)
OperatorInit(n) ==
  /\ steps < MaxSteps
  /\ ~heap[n].inited
  /\ heap' = [heap EXCEPT ![n].inited = TRUE, ![n].operators = <<>>]
  /\ steps' = steps + 1
  /\ lastSet' = NoSet
  /\ lastCall' = NoCall
  /\ UNCHANGED <<exported, root, gen, lastImport, invocations>>

(* setattr(owner, key, value), value a constructed Operator or another object *)
SetAttr(owner, key, value) ==
  /\ steps < MaxSteps
  /\ heap' = [heap EXCEPT ![owner] = SetAttrResult(@, key, value)]
  /\ steps' = steps + 1
  /\ lastSet' = [owner |-> owner, key |-> key, value |-> value,
                 status |-> SetAttrStatus(heap[owner], key, value)]
  /\ lastCall' = NoCall
  /\ UNCHANGED <<exported, root, gen, lastImport, invocations>>

(* owner.forward = fn, fn a plain function *)
SetForward(owner, fn) ==
  /\ steps < MaxSteps
  /\ heap' = [heap EXCEPT ![owner] = assign_forward(@, fn)]
  /\ steps' = steps + 1
  /\ lastSet' = [owner |-> owner, key |-> "forward", value |-> PyFn, status |-> "ok"]
  /\ lastCall' = NoCall
  /\ UNCHANGED <<exported, root, gen, lastImport, invocations>>

Args == {[i \in 1..k |-> i] : k \in 0..MaxArgs}

Kwargs == UNION {[S -> {3}] : S \in SUBSET KwNames}

\* node.__call__ with positional args, named kwargs and _type_check_ = type_check.
\* lastCall observes one call on the current graph: a call leaves the graph as
\* it is, so the calls after it are the calls of that same graph state.
Call(n, args, kwargs, type_check) ==
  /\ lastCall = NoCall
  /\ heap[n].inited
  /\ LET r == call(heap, n, args, kwargs, type_check)
     IN lastCall' = [node |-> n, args |-> args, kwargs |-> kwargs, type_check |-> type_check,
                     status |-> r.status, stage |-> r.stage, forward |-> r.forward,
                     input |-> r.input, value |-> r.value]
  /\ UNCHANGED <<heap, steps, lastSet, exported, root, gen, lastImport, invocations>>

Next ==
  \/ \E n \in Nodes : OperatorInit(n)
  \/ \E owner \in Nodes, key \in Names, v \in Ready(heap) : SetAttr(owner, key, OpVal(v))
  \/ \E owner \in Nodes, key \in Names : SetAttr(owner, key, NonOpVal)
  \/ \E owner \in Nodes : SetForward(owner, PlainForward)

Spec == Init /\ [][Next]_vars

NextCall ==
  \/ steps < MaxCallSteps /\ Next
  \/ \E n \in Nodes, args \in Args, kwargs \in Kwargs, tc \in BOOLEAN : Call(n, args, kwargs, tc)

SpecCall == Init /\ [][NextCall]_vars

(***************************************************************************)
(* The bridge's operations, under SpecImport                               *)
(***************************************************************************)
TaskIds == {"A", "B", "C"}

TaskOrder == <<"A", "B", "C">>

TaskKinds == {"PythonOperator", "BashOperator", "BranchPythonOperator"}

HasPythonCallable(cls) == cls \in {"PythonOperator", "BranchPythonOperator"}

(* every task has a callable of its own, a plain function *)
TaskCallable(id) ==
  CASE id = "A" -> Callable(<<>>, "none", FALSE)
    [] id = "B" -> Callable(<<>>, "const", FALSE)
    [] OTHER -> Callable(<<"a">>, "echo", FALSE)

(* the operators that exist before the import: a Leaf, a Talker whose class *)
(* has comms(), and a Pair with its Loop                                     *)
Leaf == [NewOperator("Leaf", Callable(<<>>, "empty", TRUE)) EXCEPT !.doc = "A leaf."]

Talker ==
  [NewOperator("Talker", Callable(<<>>, "empty", TRUE)) EXCEPT
     !.comms = [k \in {"task_id"} |-> "from_comms"]]

(* a Pair returns an object that is no mapping and has a child; the child is  *)
(* a Loop, which holds itself: pair.next = loop, loop.again = loop            *)
Pair ==
  SetAttrResult(NewOperator("Pair", Callable(<<>>, "obj", TRUE)), "next", OpVal(4))

Loop ==
  SetAttrResult(NewOperator("Loop", Callable(<<>>, "empty", TRUE)), "again", OpVal(4))

Timeouts == {0, 5}

Overrides ==
  {EmptyMap, [k \in {"task_id"} |-> "A"], [k \in {"sla"} |-> 9], [k \in {"email"} |-> "x"]}

InitMappings == {EmptyMap, [k \in {"a"} |-> 1]}

LateNames == {"late"}

(* the operator attached late: the Pair *)
LateValues == {3}

Orders ==
  {s \in UNION {[1..k -> TaskIds] : k \in 1..Cardinality(TaskIds)} :
     \A i, j \in 1..Len(s) : i # j => s[i] # s[j]}

Ids(order) == {order[i] : i \in 1..Len(order)}

(* upstream relations of a DAG: some order of the tasks has every task after *)
(* its upstream tasks                                                         *)
Upstreams(order) ==
  {up \in [Ids(order) -> SUBSET Ids(order)] :
     \E topo \in Orders :
       /\ Ids(topo) = Ids(order)
       /\ \A i \in 1..Len(topo) : up[topo[i]] \subseteq {topo[j] : j \in 1..(i - 1)}}

TaskGroup(order, up, kind) ==
  [i \in 1..Len(order) |->
     Task(kind[order[i]], order[i], HasPythonCallable(kind[order[i]]), TaskCallable(order[i]),
          SelectSeq(TaskOrder, LAMBDA t : t \in up[order[i]]), 0)]

(* the task groups imported: every DAG over up to three tasks, in every order *)
(* of the group, each task of the supported kind or of another               *)
TaskGroups ==
  UNION {{TaskGroup(order, up, kind) :
            up \in Upstreams(order),
            kind \in [Ids(order) -> {"PythonOperator", "BashOperator"}]} :
         order \in Orders}

InitImport ==
  /\ heap = <<Leaf, Talker, Pair, Loop>>
  /\ steps = 0
  /\ lastSet = NoSet
  /\ lastCall = NoCall
  /\ exported = NoExport
  /\ root = 0
  /\ gen = NoGen
  /\ lastImport = NoImport
  /\ invocations = <<>>

(* operator.to_airflow_operator(timeout, **operator_kwargs) *)
ToAirflowOperator(n, timeout, operator_kwargs) ==
  /\ lastImport = NoImport
  /\ exported = NoExport
  /\ LET r == to_airflow_operator(heap[n], timeout, operator_kwargs)
     IN exported' = [of |-> n, status |-> r.status, task |-> r.task]
  /\ UNCHANGED <<heap, steps, lastSet, lastCall, root, gen, lastImport, invocations>>

(* operator_cls.from_airflow_operator(air_operator) *)
FromAirflowOperator(air_operator) ==
  /\ lastImport = NoImport
  /\ LET r == from_airflow_operator(heap, air_operator)
     IN /\ heap' = r.h
        /\ lastImport' = [via |-> "operator", tasks |-> <<air_operator>>,
                          status |-> r.status, result |-> r.result]
  /\ UNCHANGED <<steps, lastSet, lastCall, exported, root, gen, invocations>>

(* operator_cls.from_airflow_dag(dag), dag.task_group the given tasks *)
FromAirflowDag(task_group) ==
  /\ lastImport = NoImport
  /\ LET r == from_airflow_dag(heap, task_group)
     IN /\ heap' = r.h
        /\ root' = r.result
        /\ gen' = r.gen
        /\ lastImport' = [via |-> "dag", tasks |-> task_group,
                          status |-> r.status, result |-> r.result]
  /\ UNCHANGED <<steps, lastSet, lastCall, exported, invocations>>

(* setattr(owner, key, value) on the imported tree, between the invocations *)
LateAttach(owner, key, value) ==
  /\ root # 0
  /\ steps < MaxLate
  /\ SetAttr(owner, key, value)

Invocation(via, kwargs, status, log, value) ==
  [via |-> via, init |-> kwargs, status |-> status, log |-> log, value |-> value]

\* root.forward called with the initial mapping unpacked: the partial of
\* sequential_forward with ops the generator made at the import
InvokeForward(kwargs) ==
  /\ root # 0
  /\ Len(invocations) < MaxInvocations
  /\ LET r == sequential_forward(heap, gen, PyMap(kwargs), <<>>)
     IN /\ gen' = r.gen
        /\ invocations' =
             Append(invocations, Invocation("forward", kwargs, r.status, r.log, r.value))
  /\ UNCHANGED <<heap, steps, lastSet, lastCall, exported, root, lastImport>>

\* root.__call__ with the initial mapping unpacked
CallRoot(kwargs) ==
  /\ root # 0
  /\ Len(invocations) < MaxInvocations
  /\ LET r == call(heap, root, <<>>, kwargs, TRUE)
     IN invocations' = Append(invocations, Invocation("call", kwargs, r.status, <<>>, r.value))
  /\ UNCHANGED <<heap, steps, lastSet, lastCall, exported, root, gen, lastImport>>

SingleTasks ==
  {Task(cls, id, HasPythonCallable(cls), TaskCallable(id), <<>>, 0) :
     cls \in TaskKinds, id \in TaskIds}

\* an export is followed by the imports of the task it built; the other imports
\* start from the state without an export
NextImport ==
  \/ \E n \in DOMAIN heap, timeout \in Timeouts, kw \in Overrides :
       ToAirflowOperator(n, timeout, kw)
  \/ exported = NoExport /\ \E t \in SingleTasks : FromAirflowOperator(t)
  \/ exported.status = "ok" /\ FromAirflowOperator(exported.task)
  \/ exported = NoExport /\ lastImport = NoImport
       /\ \E task_group \in TaskGroups : FromAirflowDag(task_group)
  \/ exported.status = "ok" /\ FromAirflowDag(<<exported.task>>)
  \/ \E owner \in root..Len(heap), key \in LateNames, v \in LateValues :
       LateAttach(owner, key, OpVal(v))
  \/ \E kwargs \in InitMappings : InvokeForward(kwargs)
  \/ \E kwargs \in InitMappings : CallRoot(kwargs)

SpecImport == InitImport /\ [][NextImport]_vars

(***************************************************************************)
(* Graph notions the claims are stated with                                *)
(***************************************************************************)
Children(h, n) == {h[n].operators[i][2] : i \in 1..Len(h[n].operators)}

RECURSIVE Closure(_, _)
Closure(h, seen) ==
  LET more == seen \cup UNION {Children(h, n) : n \in seen}
  IN IF more = seen THEN seen ELSE Closure(h, more)

Reachable(h, n) == Closure(h, {n})

Descendants(h, n) == IF Children(h, n) = {} THEN {} ELSE Closure(h, Children(h, n))

OwnDescendant(h, n) == n \in Descendants(h, n)

Acyclic(h, n) == \A m \in Reachable(h, n) : ~OwnDescendant(h, m)

RECURSIVE Dotted(_)
Dotted(path) ==
  IF path = <<>> THEN ""
  ELSE IF Len(path) = 1 THEN path[1]
  ELSE Dotted(SubSeq(path, 1, Len(path) - 1)) \o "." \o path[Len(path)]

(* depth-first pre-order by an explicit stack: the first entry of the stack is *)
(* visited next, unless its node was visited before; its children are put in  *)
(* front of the stack in registration order                                    *)
RECURSIVE PreOrder(_, _, _, _)
PreOrder(h, stack, seen, out) ==
  IF stack = <<>> THEN out
  ELSE LET top == Head(stack)
           kids == [i \in 1..Len(h[top.node].operators) |->
                      [path |-> Append(top.path, h[top.node].operators[i][1]),
                       node |-> h[top.node].operators[i][2]]]
       IN IF top.node \in seen THEN PreOrder(h, Tail(stack), seen, out)
          ELSE PreOrder(h, kids \o Tail(stack), seen \cup {top.node}, Append(out, top))

FirstReached(h, n) == PreOrder(h, <<[path |-> <<>>, node |-> n]>>, {}, <<>>)

(* C1: named_operators with remove_duplicate = true, started at a root, yields *)
(* every node instance reachable from the root exactly once, the root first    *)
(* with the empty path, in depth-first pre-order with children in registration *)
(* order, each under the dotted names of the path on which it was first        *)
(* reached, however many names or parents reference it.                        *)
C1_TraversalOnce ==
  \A n \in Ready(heap) :
    LET out == NamedOperators(heap, n)
        ref == FirstReached(heap, n)
    IN /\ Len(out) >= 1
       /\ out[1] = <<"", n>>
       /\ {out[i][2] : i \in 1..Len(out)} = Reachable(heap, n)
       /\ \A i, j \in 1..Len(out) : i # j => out[i][2] # out[j][2]
       /\ Len(out) = Len(ref)
       /\ \A i \in 1..Len(out) : out[i] = <<Dotted(ref[i].path), ref[i].node>>
       /\ \A i \in 2..Len(out) :
            \E j \in 1..(i - 1) :
              \E k \in 1..Len(heap[out[j][2]].operators) :
                /\ heap[out[j][2]].operators[k][2] = out[i][2]
                /\ out[i][1] = submodule_prefix(out[j][1], heap[out[j][2]].operators[k][1])

(* a node registered directly under the root is first reached, and yielded, on *)
(* a longer path through an earlier child                                      *)
C1_Witness ==
  \E n \in Ready(heap) :
    LET ref == FirstReached(heap, n)
    IN \E i \in 1..Len(ref) :
         /\ Len(ref[i].path) = 2
         /\ ref[i].node \in Children(heap, n)
         /\ NamedOperators(heap, n)[i] = <<Dotted(ref[i].path), ref[i].node>>

(* the attribute of that name is a registered child: the registry has the    *)
(* name, for the object the attribute holds                                  *)
RegisteredChild(obj, key) ==
  /\ key \in DOMAIN obj.dict
  /\ IsOperator(obj.dict[key])
  /\ \E i \in 1..Len(obj.operators) : obj.operators[i] = <<key, obj.dict[key].id>>

(* C4: attaching an operator under a name fails when the owner's registry is   *)
(* not initialised, or when the name is an attribute of the owner that is not  *)
(* a registered child; a failed attempt leaves every object as it was; in      *)
(* every other case the node is registered under the name, held by the         *)
(* attribute, and yielded by the traversal of the owner.                       *)
C4_SetChild ==
  [][(steps' = steps + 1 /\ lastSet'.status # "none" /\ IsOperator(lastSet'.value)) =>
       LET a == lastSet'
           before == heap[a.owner]
           after == heap'[a.owner]
           uninitialised == ~before.inited
           collides == a.key \in DOMAIN before.dict /\ ~RegisteredChild(before, a.key)
           walk == NamedOperators(heap', a.owner)
       IN /\ (a.status # "ok") <=> (uninitialised \/ collides)
          /\ a.status # "ok" => heap' = heap
          /\ a.status = "ok" =>
               /\ Cardinality({i \in 1..Len(after.operators) :
                                 after.operators[i][1] = a.key}) = 1
               /\ \E i \in 1..Len(after.operators) :
                    after.operators[i] = <<a.key, a.value.id>>
               /\ a.key \in DOMAIN after.dict /\ after.dict[a.key] = a.value
               /\ \E j \in 1..Len(walk) : walk[j][2] = a.value.id
               /\ \A m \in DOMAIN heap : m # a.owner => heap'[m] = heap[m]]_vars

(* C10: every name of a node's child registry maps to the object the node's    *)
(* attribute of that name holds.                                               *)
C10_RegistryMirrorsAttributes ==
  \A n \in Ready(heap) :
    \A i \in 1..Len(heap[n].operators) :
      LET e == heap[n].operators[i]
      IN e[1] \in DOMAIN heap[n].dict /\ heap[n].dict[e[1]] = OpVal(e[2])

(***************************************************************************)
(* Claims about calls, under SpecCall                                      *)
(***************************************************************************)
Declared(n) == heap[n].fwd.params

DeclaredSet(n) == {Declared(n)[i] : i \in 1..Len(Declared(n))}

ArgCount(c) == Len(c.args) + Cardinality(DOMAIN c.kwargs)

(* the arguments can be bound: no more positional arguments than parameters,   *)
(* every named argument a declared parameter that no positional argument took  *)
Bindable(c) ==
  /\ Len(c.args) <= Len(Declared(c.node))
  /\ DOMAIN c.kwargs \subseteq {Declared(c.node)[i] : i \in (Len(c.args) + 1)..Len(Declared(c.node))}

Binding(c) ==
  [k \in {Declared(c.node)[i] : i \in 1..Len(c.args)} \cup DOMAIN c.kwargs |->
     IF k \in DOMAIN c.kwargs THEN c.kwargs[k]
     ELSE c.args[CHOOSE i \in 1..Len(c.args) : Declared(c.node)[i] = k]]

(* C2: a call of an acyclic node whose argument count equals the number of     *)
(* declared parameters binds positional argument i to parameter i and each     *)
(* named argument to the parameter of its name, calls forward with that        *)
(* mapping and returns forward's result unchanged.                             *)
C2_BindsAndForwards ==
  (/\ lastCall.status # "none"
   /\ Acyclic(heap, lastCall.node)
   /\ is_dag(heap, lastCall.node)
   /\ ArgCount(lastCall) = Len(Declared(lastCall.node))
   /\ Bindable(lastCall))
  => /\ lastCall.status = "ok"
     /\ lastCall.forward = "called"
     /\ lastCall.input = Binding(lastCall)
     /\ lastCall.value = Return(heap[lastCall.node].fwd, lastCall.node, Binding(lastCall))

ArityError(c) == c.status = "ValueError" /\ c.stage = "type_check"

(* C3: with type checking enabled, a call that passes the acyclicity check and *)
(* whose argument count differs from the number of declared parameters fails   *)
(* with the arity error and never invokes forward; with type checking disabled *)
(* the count is not validated and a call whose arguments can be bound goes on  *)
(* to forward with the bound mapping.                                          *)
C3_ArityContract ==
  (lastCall.status # "none" /\ is_dag(heap, lastCall.node))
  => /\ (lastCall.type_check /\ ArgCount(lastCall) # Len(Declared(lastCall.node)))
          => (ArityError(lastCall) /\ lastCall.forward = "not_called")
     /\ ~lastCall.type_check => ~ArityError(lastCall)
     /\ (~lastCall.type_check /\ Bindable(lastCall))
          => (lastCall.forward # "not_called" /\ lastCall.input = Binding(lastCall))

(* C7: a call of a node that is its own descendant finds is_dag false and is   *)
(* refused before forward is executed.                                         *)
C7_CycleRefused ==
  (lastCall.status # "none" /\ OwnDescendant(heap, lastCall.node))
  => /\ ~is_dag(heap, lastCall.node)
     /\ lastCall.status = "AssertionError"
     /\ lastCall.forward = "not_called"

(***************************************************************************)
(* Claims about the bridge, under SpecImport                               *)
(***************************************************************************)
Imported == lastImport.tasks

AllSupported == \A i \in 1..Len(Imported) : Imported[i].cls = "PythonOperator"

(* the operators from_airflow_dag created below the root *)
Created == (root + 1)..Len(heap)

BoundTo(task) == {n \in Created : heap[n].fwd = task.callable}

NodeOf(task) == CHOOSE n \in Created : heap[n].fwd = task.callable

TaskNamed(id) == Imported[CHOOSE i \in 1..Len(Imported) : Imported[i].task_id = id]

UpstreamSet(task) == {task.upstream[i] : i \in 1..Len(task.upstream)}

Entries(n) == {heap[n].operators[i] : i \in 1..Len(heap[n].operators)}

ParentLess == SelectSeq(Imported, LAMBDA t : t.upstream = <<>>)

(* C5: importing a task group of supported tasks returns a root; in the tree   *)
(* as returned there is one operator instance per task_id, bound to the task's *)
(* callable; the node of every upstream task P of a task C has the node of C   *)
(* as the child op__P__C, and no other children; the children of the root are  *)
(* exactly the tasks without upstream, each as op__root__<task_id>.            *)
C5_ImportStructure ==
  (lastImport.via = "dag" /\ AllSupported /\ steps = 0) =>
    /\ lastImport.status = "ok"
    /\ root = lastImport.result /\ root \in DOMAIN heap
    /\ Cardinality(Created) = Len(Imported)
    /\ \A i \in 1..Len(Imported) : Cardinality(BoundTo(Imported[i])) = 1
    /\ \A i \in 1..Len(Imported) :
         LET p == Imported[i]
         IN /\ Entries(NodeOf(p)) =
                 {<<"op__" \o p.task_id \o "__" \o Imported[j].task_id, NodeOf(Imported[j])>> :
                    j \in {k \in 1..Len(Imported) : p.task_id \in UpstreamSet(Imported[k])}}
            /\ Cardinality(Entries(NodeOf(p))) = Len(heap[NodeOf(p)].operators)
            /\ \A e \in Entries(NodeOf(p)) : heap[NodeOf(p)].dict[e[1]] = OpVal(e[2])
    /\ heap[root].operators =
         [i \in 1..Len(ParentLess) |->
            <<"op__root__" \o ParentLess[i].task_id, NodeOf(ParentLess[i])>>]

(* the group {A: [], B: [A], C: [A]} was imported: the root has the single     *)
(* child op__root__A, and A has exactly the children op__A__B and op__A__C     *)
C5_Witness ==
  /\ lastImport.via = "dag" /\ lastImport.status = "ok" /\ steps = 0
  /\ [i \in 1..Len(Imported) |-> <<Imported[i].task_id, Imported[i].upstream>>]
       = << <<"A", <<>>>>, <<"B", <<"A">>>>, <<"C", <<"A">>>> >>
  /\ heap[root].operators = << <<"op__root__A", NodeOf(TaskNamed("A"))>> >>
  /\ heap[NodeOf(TaskNamed("A"))].operators =
       << <<"op__A__B", NodeOf(TaskNamed("B"))>>, <<"op__A__C", NodeOf(TaskNamed("C"))>> >>

(* the run the claim describes: the operators below the root, in traversal     *)
(* order, each called with the previous output (an empty mapping for a falsy   *)
(* one), arguments bound by name                                               *)
RECURSIVE ClaimedRun(_, _, _, _)
ClaimedRun(nodes, i, out, log) ==
  IF i > Len(nodes) THEN [ok |-> TRUE, log |-> log, value |-> PyMap(out)]
  ELSE LET f == heap[nodes[i]].fwd
           ret == Return(f, nodes[i], out)
       IN IF DOMAIN out # {f.params[k] : k \in 1..Len(f.params)} \/ ret.t \notin {"none", "map"}
          THEN [ok |-> FALSE, log |-> log, value |-> PyNone]
          ELSE ClaimedRun(nodes, i + 1, IF Falsy(ret) THEN EmptyMap ELSE ret.m,
                          Append(log, <<nodes[i], out>>))

BelowRoot == Tail(operators(heap, root))

(* C6: every invocation of the root's composed forward calls the operators     *)
(* below the root once each, in traversal order, chaining the outputs, and     *)
(* returns the last output; the first invocation and every later one make the  *)
(* same calls.                                                                 *)
C6_SequentialForward ==
  \A k \in 1..Len(invocations) :
    LET inv == invocations[k]
        claimed == ClaimedRun(BelowRoot, 1, inv.init, <<>>)
    IN (inv.via = "forward" /\ claimed.ok) =>
         /\ inv.status = "ok"
         /\ inv.log = claimed.log
         /\ inv.value = claimed.value

(* C8: exporting a leaf operator and importing the exported task, with no      *)
(* upstream, succeeds and gives a root with exactly one child, whose forward   *)
(* is the callable of the exported operator.                                   *)
C8_ExportImportRoundTrip ==
  (/\ lastImport.via = "dag"
   /\ exported.status = "ok"
   /\ Imported = <<exported.task>>
   /\ heap[exported.of].operators = <<>>)
  => /\ lastImport.status = "ok"
     /\ root \in DOMAIN heap
     /\ Len(heap[root].operators) = 1
     /\ heap[heap[root].operators[1][2]].fwd = heap[exported.of].fwd

UnsupportedKindFailure(status) ==
  status \in {"AssertionError: Only PythonOperator is supported",
              "Exception: Only PythonOperator is supported"}

(* C9: from_airflow_operator and from_airflow_dag abort with the unsupported-  *)
(* kind failure, returning no operator, exactly when some task is not of the   *)
(* supported Python-callable kind.                                             *)
C9_RejectsUnsupportedKinds ==
  lastImport.status # "none" =>
    /\ UnsupportedKindFailure(lastImport.status) <=> ~AllSupported
    /\ ~AllSupported => lastImport.result = 0
====
